---- MODULE Spec2Model ----
(***************************************************************************)
(* Safe-mode backend loader of apple-mcp (src/index.ts, second program,    *)
(* lines 1205-2266): module slots, the 5 second timer, the eager-load task *)
(* attemptEagerLoading, initServer and the lazy loadModule used by the     *)
(* CallTool handler.  JavaScript is single threaded: every action below is *)
(* one run-to-completion turn of the event loop (from one await to the     *)
(* next).                                                                  *)
(***************************************************************************)
EXTENDS Naturals, Integers, Sequences, FiniteSets, TLC

\* Largest number of loadModule import() promises in flight at once
\* (concurrent tool calls that are awaiting a dynamic import).
MaxPending == 2

\* The module slots, in the order attemptEagerLoading imports them.
ModuleOrder == <<"contacts", "notes", "message", "mail", "reminders">>

Modules == {ModuleOrder[i] : i \in 1..Len(ModuleOrder)}

NULL == "null"

LOADED == "module"

VARIABLES
  modules,          \* slot of each module: NULL or the imported module
  useEagerLoading,  \* let useEagerLoading
  safeModeFallback, \* let safeModeFallback
  loadingTimeout,   \* let loadingTimeout: "handle" or NULL
  timer,            \* the runtime's timer: "pending", "fired" or "cleared"
  eagerPc,          \* attemptEagerLoading: the module whose import it awaits,
                    \* or "returned" (try block done) or "caught" (catch done)
  lazyPending,      \* per module, import() promises awaited by loadModule
  lastReturn,       \* how the latest loadModule call ended
  servers,          \* number of Server objects created by initServer
  connecting,       \* server.connect(transport) calls not yet settled
  connected,        \* transports connected
  exited,           \* process.exit(1) was called
  \* The record parser of the mail handler (one run on one script result):
  origin,           \* how the script result was drawn (see DecInit)
  source,           \* what it was built from
  asResult,         \* const asResult: the text returned by the script
  decPc,            \* position of the parser: "idle", "match", "loop",
                    \* "forEach", "filter" or "done"
  matches,          \* const matches (null is the empty sequence)
  idx,              \* index in matches of the for-of loop
  props,            \* const props of the current match
  email,            \* const email of the current match
  records,          \* the email objects that passed the filter, in order
  emailData,        \* const emailData
  \* The "unread" operation of the mail tool around the parser:
  account,          \* args.account is given
  run,              \* 1 for the first request, 2 for the same request again
  now,              \* what new Date().toString() returns at present
  fallback,         \* mailModule.getUnreadMails(args.limit): "idle" (not
                    \* called), "called", "returned" or "threw"
  emails,           \* let emails
  response,         \* what the CallTool handler returned
  first             \* emailData, records and fallback of the first request

\* createNote of the notes module and the "create" operation of the notes
\* tool that calls it:
VARIABLES
  noteVersion,      \* which createNote: "utils" (src/utils/notes.ts) or
                    \* "part3" (src/unnamed/part_003)
  folders,          \* names of the folders of the Notes application
  notes,            \* where each note was created, in order of creation
  notePc,           \* position of createNote: "idle", "find", "makeFolder",
                    \* "refind", "makeNote" or "returned"
  folderArg,        \* args.folderName as passed ("undefined" when absent)
  folderName,       \* parameter folderName, defaulted
  targetFolder,     \* let targetFolder (NULL when undefined or null)
  usedDefaultFolder,\* let usedDefaultFolder
  noteResult,       \* what createNote returned
  noteResponse,     \* what the CallTool handler returned
  noteBefore,       \* folders and notes when createNote was called
  noteCalls         \* number of calls so far

\* The simplified program at the top of src/index.ts (lines 1-1203):
VARIABLES
  slots,            \* let contacts, notes, ..., maps: NULL or the module
  simplePc,         \* loadModules/initServer: the module whose import is
                    \* awaited, "connecting", "serving" or "exited"
  importLog,        \* the modules imported so far, in order
  importFailed,     \* an import of loadModules was rejected
  handlers,         \* the request handlers are registered
  exitCode,         \* argument of process.exit, -1 while running
  reqPc,            \* CallTool handler: "idle", "resolved", "runner",
                    \* "calling" or "responded"
  reqTool,          \* request.params.name
  reqArgs,          \* what request.params.arguments is like (see ArgKinds)
  reqCause,         \* the exception raised while handling, or "none"
  reqResponse,      \* what the handler returned
  resolved,         \* modules asked of loadModuleForTool by this request
  backendCalls,     \* calls of module functions made by this request
  slotsBefore       \* slots when the request arrived

\* findContactByPhone of the contacts module (src/utils/contacts.ts):
VARIABLES
  contactPc,        \* "idle", "access" (checkContactsAccess awaited),
                    \* "numbers" (getAllNumbers awaited), "returned" or
                    \* "displayed"
  phoneNumber,      \* parameter phoneNumber (msg.sender)
  searchNumber,     \* const searchNumber
  allContacts,      \* Object.entries(allContacts)
  contactFailed,    \* what failed: "none", "access" or "numbers"
  contactResult,    \* the returned name, or NULL
  displayName       \* displayName of the message in the "unread" case

\* webSearch (src/unnamed/part_001):
VARIABLES
  webPc,            \* "idle", "searching", "fetching" or "returned"
  html,             \* result blocks of the search page: for each, whether
                    \* title, url, display url and snippet are all there
  searchFailed,     \* makeRequest of the search was rejected
  searchResults,    \* searchResults.results: the blocks kept, by position
  fetches,          \* per result, fetchPageContent: "pending", "ok", "failed"
  webResult         \* what webSearch returned

loaderVars == <<modules, useEagerLoading, safeModeFallback, loadingTimeout,
                timer, eagerPc, lazyPending, lastReturn, servers, connecting,
                connected, exited>>

decVars == <<origin, source, asResult, decPc, matches, idx, props, email,
             records, emailData>>

mailVars == <<account, run, now, fallback, emails, response, first>>

noteVars == <<noteVersion, folders, notes, notePc, folderArg, folderName,
              targetFolder, usedDefaultFolder, noteResult, noteResponse,
              noteBefore, noteCalls>>

simpleVars == <<slots, simplePc, importLog, importFailed, handlers, exitCode,
                reqPc, reqTool, reqArgs, reqCause, reqResponse, resolved,
                backendCalls, slotsBefore>>

contactVars == <<contactPc, phoneNumber, searchNumber, allContacts,
                 contactFailed, contactResult, displayName>>

webVars == <<webPc, html, searchFailed, searchResults, fetches, webResult>>

extVars == <<mailVars, noteVars, simpleVars, contactVars, webVars>>

\* For each program of this module, the variables of the other programs.
mailFrame == <<loaderVars, noteVars, simpleVars, contactVars, webVars>>

noteFrame == <<loaderVars, decVars, mailVars, simpleVars, contactVars, webVars>>

simpleFrame == <<loaderVars, decVars, mailVars, noteVars, contactVars, webVars>>

contactFrame == <<loaderVars, decVars, mailVars, noteVars, simpleVars, webVars>>

webFrame == <<loaderVars, decVars, mailVars, noteVars, simpleVars, contactVars>>

vars == <<loaderVars, decVars, extVars>>

IndexOf(m) == CHOOSE i \in 1..Len(ModuleOrder) : ModuleOrder[i] = m

LastModule == ModuleOrder[Len(ModuleOrder)]

NextModule(m) == ModuleOrder[IndexOf(m) + 1]

\* import() promises of module m that have been issued and not yet settled.
InFlight(m) == lazyPending[m] + (IF eagerPc = m THEN 1 ELSE 0)

RECURSIVE SumPending(_, _)
SumPending(f, S) ==
  IF S = {} THEN 0
  ELSE LET m == CHOOSE x \in S : TRUE IN f[m] + SumPending(f, S \ {m})

ClearedModules == [m \in Modules |-> NULL]

\* State after the top-level code of the program has run: the timer is set
\* (line 1262), attemptEagerLoading() was called (line 1334) and has run up
\* to its first await, the import of contacts.
LoaderInit ==
  /\ modules = ClearedModules
  /\ useEagerLoading = TRUE
  /\ safeModeFallback = FALSE
  /\ loadingTimeout = "handle"
  /\ timer = "pending"
  /\ eagerPc = ModuleOrder[1]
  /\ lazyPending = [m \in Modules |-> 0]
  /\ lastReturn = "none"
  /\ servers = 0
  /\ connecting = 0
  /\ connected = 0
  /\ exited = FALSE

\* An object without properties: const email: any = {}.
EmptyEmail == [k \in {} |-> <<>>]

\* No script result is being parsed.
DecoderIdle ==
  /\ origin = "none"
  /\ source = <<>>
  /\ asResult = <<>>
  /\ decPc = "idle"
  /\ matches = <<>>
  /\ idx = 0
  /\ props = <<>>
  /\ email = EmptyEmail
  /\ records = <<>>
  /\ emailData = <<>>

NoResponse == [kind |-> "pending", found |-> 0, isError |-> FALSE]

NoFirst == [data |-> <<>>, records |-> <<>>, fallback |-> "idle"]

\* No "unread" request has been received.
MailIdle ==
  /\ account = FALSE
  /\ run = 1
  /\ now = "t1"
  /\ fallback = "idle"
  /\ emails = <<>>
  /\ response = NoResponse
  /\ first = NoFirst

NoResult == [success |-> FALSE, message |-> <<>>]

\* createNote has not been called; the Notes application has no folder of
\* interest and no note.
NoteIdle ==
  /\ noteVersion = "utils"
  /\ folders = {}
  /\ notes = <<>>
  /\ notePc = "idle"
  /\ folderArg = "undefined"
  /\ folderName = "Claude"
  /\ targetFolder = NULL
  /\ usedDefaultFolder = FALSE
  /\ noteResult = NoResult
  /\ noteResponse = [kind |-> "pending", isError |-> FALSE]
  /\ noteBefore = [folders |-> {}, notes |-> <<>>]
  /\ noteCalls = 0

\* The modules of the simplified program, in the order loadModules imports
\* them.
SimpleOrder ==
  <<"contacts", "notes", "message", "mail", "reminders", "webSearch",
    "calendar", "maps">>

SimpleModules == {SimpleOrder[i] : i \in 1..Len(SimpleOrder)}

NoReply == [kind |-> "pending", isError |-> FALSE]

\* No request is being handled.
RequestIdle ==
  /\ reqPc = "idle"
  /\ reqTool = "none"
  /\ reqArgs = "none"
  /\ reqCause = "none"
  /\ reqResponse = NoReply
  /\ resolved = {}
  /\ backendCalls = 0

\* The simplified program has been started: initServer() was called and
\* loadModules awaits its first import.
SimpleStart ==
  /\ slots = [m \in SimpleModules |-> NULL]
  /\ simplePc = SimpleOrder[1]
  /\ importLog = <<>>
  /\ importFailed = FALSE
  /\ handlers = FALSE
  /\ exitCode = -1
  /\ RequestIdle
  /\ slotsBefore = slots

\* findContactByPhone has not been called.
ContactIdle ==
  /\ contactPc = "idle"
  /\ phoneNumber = <<>>
  /\ searchNumber = <<>>
  /\ allContacts = <<>>
  /\ contactFailed = "none"
  /\ contactResult = NULL
  /\ displayName = <<>>

NoWebResult == [results |-> <<>>, error |-> "none"]

\* webSearch has not been called.
WebIdle ==
  /\ webPc = "idle"
  /\ html = <<>>
  /\ searchFailed = FALSE
  /\ searchResults = <<>>
  /\ fetches = <<>>
  /\ webResult = NoWebResult

ExtIdle == MailIdle /\ NoteIdle /\ SimpleStart /\ ContactIdle /\ WebIdle

Init == LoaderInit /\ DecoderIdle /\ ExtIdle

\* initServer(): a new Server, the handlers registered, and the transport
\* closure run up to await server.connect(transport).
InitServer ==
  /\ servers' = servers + 1
  /\ connecting' = connecting + 1

\* ClearLoadingTimeout with the clearTimeout call left out.
ClearLoadingTimeoutForgets ==
  /\ timer' = timer
  /\ loadingTimeout' = NULL

\* if (loadingTimeout) { clearTimeout(loadingTimeout); loadingTimeout = null }
\* clearTimeout of a timer that has fired does nothing.
ClearLoadingTimeout ==
  /\ timer' = IF loadingTimeout # NULL /\ timer = "pending" THEN "cleared" ELSE timer
  /\ loadingTimeout' = NULL

\* useEagerLoading = false; safeModeFallback = true
SwitchToSafeMode ==
  /\ useEagerLoading' = FALSE
  /\ safeModeFallback' = TRUE

\* TimerCallback with the call of initServer left out.
TimerCallbackNoInit ==
  /\ ~exited
  /\ UNCHANGED decVars
  /\ UNCHANGED extVars
  /\ timer = "pending"
  /\ timer' = "fired"
  /\ SwitchToSafeMode
  /\ modules' = ClearedModules
  /\ UNCHANGED <<loadingTimeout, eagerPc, lazyPending, lastReturn, servers,
                 connecting, connected, exited>>

\* The setTimeout callback.
TimerCallback ==
  /\ ~exited
  /\ UNCHANGED decVars
  /\ UNCHANGED extVars
  /\ timer = "pending"
  /\ timer' = "fired"
  /\ SwitchToSafeMode
  /\ modules' = ClearedModules
  /\ InitServer
  /\ UNCHANGED <<loadingTimeout, eagerPc, lazyPending, lastReturn, connected, exited>>

\* EagerSuccessTail that also switches the flags back to eager loading.
EagerSuccessTailResetsMode ==
  /\ eagerPc' = "returned"
  /\ ClearLoadingTimeout
  /\ InitServer
  /\ useEagerLoading' = TRUE
  /\ safeModeFallback' = FALSE

\* attemptEagerLoading after its last import: lines 1299-1306.
EagerSuccessTail ==
  /\ eagerPc' = "returned"
  /\ ClearLoadingTimeout
  /\ InitServer
  /\ UNCHANGED <<useEagerLoading, safeModeFallback>>

\* EagerNextImport that starts the server before the imports are done.
EagerNextImportInits ==
  /\ eagerPc' = NextModule(eagerPc)
  /\ InitServer
  /\ UNCHANGED <<useEagerLoading, safeModeFallback, loadingTimeout, timer>>

\* attemptEagerLoading between two imports: the next import() is issued.
EagerNextImport ==
  /\ eagerPc' = NextModule(eagerPc)
  /\ UNCHANGED <<useEagerLoading, safeModeFallback, loadingTimeout, timer,
                 servers, connecting>>

\* The import awaited by attemptEagerLoading resolves.
EagerImportOk ==
  /\ ~exited
  /\ UNCHANGED decVars
  /\ UNCHANGED extVars
  /\ eagerPc \in Modules
  /\ modules' = [modules EXCEPT ![eagerPc] = LOADED]
  /\ IF eagerPc = LastModule THEN EagerSuccessTail ELSE EagerNextImport
  /\ UNCHANGED <<lazyPending, lastReturn, connected, exited>>

\* EagerCatch that leaves the module slots as they are.
EagerCatchKeepsModules ==
  /\ ~exited
  /\ UNCHANGED decVars
  /\ UNCHANGED extVars
  /\ eagerPc \in Modules
  /\ eagerPc' = "caught"
  /\ ClearLoadingTimeout
  /\ SwitchToSafeMode
  /\ InitServer
  /\ UNCHANGED <<modules, lazyPending, lastReturn, connected, exited>>

\* EagerCatch that gives up as loadModules of the first program does:
\* process.exit(1).
EagerCatchExits ==
  /\ ~exited
  /\ UNCHANGED decVars
  /\ UNCHANGED extVars
  /\ eagerPc \in Modules
  /\ eagerPc' = "caught"
  /\ exited' = TRUE
  /\ UNCHANGED <<modules, useEagerLoading, safeModeFallback, loadingTimeout,
                 timer, lazyPending, lastReturn, servers, connecting, connected>>

\* The import awaited by attemptEagerLoading rejects: the catch block.
EagerCatch ==
  /\ ~exited
  /\ UNCHANGED decVars
  /\ UNCHANGED extVars
  /\ eagerPc \in Modules
  /\ eagerPc' = "caught"
  /\ ClearLoadingTimeout
  /\ SwitchToSafeMode
  /\ modules' = ClearedModules
  /\ InitServer
  /\ UNCHANGED <<lazyPending, lastReturn, connected, exited>>

\* await server.connect(transport) resolves.
ConnectOk ==
  /\ ~exited
  /\ UNCHANGED decVars
  /\ UNCHANGED extVars
  /\ connecting > 0
  /\ connecting' = connecting - 1
  /\ connected' = connected + 1
  /\ UNCHANGED <<modules, useEagerLoading, safeModeFallback, loadingTimeout,
                 timer, eagerPc, lazyPending, lastReturn, servers, exited>>

\* The transport closure catches an error: process.exit(1).
ConnectFail ==
  /\ ~exited
  /\ UNCHANGED decVars
  /\ UNCHANGED extVars
  /\ connecting > 0
  /\ connecting' = connecting - 1
  /\ exited' = TRUE
  /\ UNCHANGED <<modules, useEagerLoading, safeModeFallback, loadingTimeout,
                 timer, eagerPc, lazyPending, lastReturn, servers, connected>>

\* NeedsImport with the test inverted.
NeedsImportInverted(m) == modules[m] # NULL

\* NeedsImport without the test of the slot.
NeedsImportAlways(m) == TRUE

\* if (!contacts) ...: loadModule imports only when the slot is empty.
NeedsImport(m) == modules[m] = NULL

\* A CallTool request is handled and calls loadModule(m): either the slot is
\* returned at once, or import() is issued and awaited.
LoadModule(m) ==
  /\ ~exited
  /\ UNCHANGED decVars
  /\ UNCHANGED extVars
  /\ connected > 0
  /\ IF NeedsImport(m)
       THEN /\ SumPending(lazyPending, Modules) < MaxPending
            /\ lazyPending' = [lazyPending EXCEPT ![m] = @ + 1]
            /\ lastReturn' = lastReturn
       ELSE /\ lastReturn' = "cached"
            /\ lazyPending' = lazyPending
  /\ UNCHANGED <<modules, useEagerLoading, safeModeFallback, loadingTimeout,
                 timer, eagerPc, servers, connecting, connected, exited>>

\* An import awaited by loadModule(m) resolves: the slot is assigned and
\* returned.
LoadModuleOk(m) ==
  /\ ~exited
  /\ UNCHANGED decVars
  /\ UNCHANGED extVars
  /\ lazyPending[m] > 0
  /\ lazyPending' = [lazyPending EXCEPT ![m] = @ - 1]
  /\ modules' = [modules EXCEPT ![m] = LOADED]
  /\ lastReturn' = "loaded"
  /\ UNCHANGED <<useEagerLoading, safeModeFallback, loadingTimeout, timer,
                 eagerPc, servers, connecting, connected, exited>>

\* LoadModuleFail that stores the failed result in the slot.
LoadModuleFailPoisons(m) ==
  /\ ~exited
  /\ UNCHANGED decVars
  /\ UNCHANGED extVars
  /\ lazyPending[m] > 0
  /\ lazyPending' = [lazyPending EXCEPT ![m] = @ - 1]
  /\ modules' = [modules EXCEPT ![m] = LOADED]
  /\ lastReturn' = "error"
  /\ UNCHANGED <<useEagerLoading, safeModeFallback, loadingTimeout, timer,
                 eagerPc, servers, connecting, connected, exited>>

\* LoadModuleFail whose rejection is not caught by the handler and ends the
\* process.
LoadModuleFailExits(m) ==
  /\ ~exited
  /\ UNCHANGED decVars
  /\ UNCHANGED extVars
  /\ lazyPending[m] > 0
  /\ lazyPending' = [lazyPending EXCEPT ![m] = @ - 1]
  /\ lastReturn' = "error"
  /\ exited' = TRUE
  /\ UNCHANGED <<modules, useEagerLoading, safeModeFallback, loadingTimeout,
                 timer, eagerPc, servers, connecting, connected>>

\* An import awaited by loadModule(m) rejects: the error is logged and
\* rethrown to the handler.
LoadModuleFail(m) ==
  /\ ~exited
  /\ UNCHANGED decVars
  /\ UNCHANGED extVars
  /\ lazyPending[m] > 0
  /\ lazyPending' = [lazyPending EXCEPT ![m] = @ - 1]
  /\ lastReturn' = "error"
  /\ UNCHANGED <<modules, useEagerLoading, safeModeFallback, loadingTimeout,
                 timer, eagerPc, servers, connecting, connected, exited>>

\* isError of the response the CallTool handler builds from the way
\* loadModule ended: the catch around loadModule answers isError: true.
IsError(ret) == ret = "error"

Next ==
  \/ TimerCallback
  \/ EagerImportOk
  \/ EagerCatch
  \/ ConnectOk
  \/ ConnectFail
  \/ \E m \in Modules : LoadModule(m)
  \/ \E m \in Modules : LoadModuleOk(m)
  \/ \E m \in Modules : LoadModuleFail(m)

Spec == Init /\ [][Next]_vars

\* The runtime fires a pending timer that is not cleared; nothing is assumed
\* about imports or connects ever settling.
FairSpec == Spec /\ WF_vars(TimerCallback)

TypeOK ==
  /\ modules \in [Modules -> {NULL, LOADED}]
  /\ useEagerLoading \in BOOLEAN
  /\ safeModeFallback \in BOOLEAN
  /\ loadingTimeout \in {"handle", NULL}
  /\ timer \in {"pending", "fired", "cleared"}
  /\ eagerPc \in Modules \cup {"returned", "caught"}
  /\ lazyPending \in [Modules -> 0..MaxPending]
  /\ lastReturn \in {"none", "cached", "loaded", "error"}
  /\ servers \in 0..2
  /\ connecting \in 0..2
  /\ connected \in 0..2
  /\ exited \in BOOLEAN

(***************************************************************************)
(* The record parser of the mail handler (src/index.ts lines 398-429, the  *)
(* same code at 1824-1855 and in the search operation).  A text is a       *)
(* sequence of lexical units: the characters "{", "}", ",", ":", " " and   *)
(* words, which stand for runs of other characters.  No catenation of the  *)
(* words used here is another of these words.                              *)
(***************************************************************************)

\* Longest text between the braces of a drawn single candidate.
MaxInner == 4

\* Largest number of catalogue pieces catenated into a drawn text.
MaxPieces == 3

\* Largest number of fields of the records a drawn text is rendered from.
MaxSourceFields == 3

\* String.indexOf(c, i): the first index >= i of c in s, 0 when there is none.
IndexFrom(s, c, i) ==
  LET S == {j \in i..Len(s) : s[j] = c}
  IN IF S = {} THEN 0 ELSE CHOOSE j \in S : \A k \in S : j <= k

\* The matches of /\{([^}]+)\}/g scanning s from index i: an opening brace,
\* one or more characters other than "}", and the first "}" after them.
RECURSIVE MatchFrom(_, _)
MatchFrom(s, i) ==
  IF i > Len(s) THEN <<>>
  ELSE IF s[i] # "{" THEN MatchFrom(s, i + 1)
  ELSE LET q == IndexFrom(s, "}", i + 1)
       IN IF q = 0 THEN <<>>
          ELSE IF q = i + 1 THEN MatchFrom(s, i + 1)
          ELSE <<SubSeq(s, i, q)>> \o MatchFrom(s, q + 1)

\* asResult.match(/\{([^}]+)\}/g); null is modelled as the empty sequence.
RegexMatchAll(s) == MatchFrom(s, 1)

\* String.split(sep): always at least one part.
RECURSIVE Split(_, _)
Split(s, sep) ==
  LET i == IndexFrom(s, sep, 1)
  IN IF i = 0 THEN <<s>>
     ELSE <<SubSeq(s, 1, i - 1)>> \o Split(SubSeq(s, i + 1, Len(s)), sep)

\* Array.join(sep)
RECURSIVE Join(_, _)
Join(parts, sep) ==
  IF Len(parts) = 0 THEN <<>>
  ELSE IF Len(parts) = 1 THEN parts[1]
  ELSE parts[1] \o <<sep>> \o Join(Tail(parts), sep)

RECURSIVE TrimStart(_)
TrimStart(s) ==
  IF s # <<>> /\ Head(s) = " " THEN TrimStart(Tail(s)) ELSE s

RECURSIVE TrimEnd(_)
TrimEnd(s) ==
  IF s # <<>> /\ s[Len(s)] = " " THEN TrimEnd(SubSeq(s, 1, Len(s) - 1)) ELSE s

\* Trim that only strips the front.
TrimStartOnly(s) == TrimStart(s)

\* String.trim()
Trim(s) == TrimEnd(TrimStart(s))

\* SplitProps that cuts at the first comma only.
SplitPropsFirstComma(match) ==
  LET inner == SubSeq(match, 2, Len(match) - 1)
      i == IndexFrom(inner, ",", 1)
  IN IF i = 0 THEN <<inner>>
     ELSE <<SubSeq(inner, 1, i - 1), SubSeq(inner, i + 1, Len(inner))>>

\* match.substring(1, match.length - 1).split(',')
SplitProps(match) == Split(SubSeq(match, 2, Len(match) - 1), ",")

\* email[key] = value
Put(e, key, value) ==
  [k \in DOMAIN e \cup {key} |-> IF k = key THEN value ELSE e[k]]

\* PropValue that takes parts[1] and drops what follows a later colon.
PropValueSecondPart(parts) == Trim(parts[2])

\* parts.slice(1).join(':').trim()
PropValue(parts) == Trim(Join(Tail(parts), ":"))

\* The body of props.forEach for one prop.
ParseProp(e, prop) ==
  LET parts == Split(prop, ":")
  IN IF Len(parts) >= 2 THEN Put(e, Trim(parts[1]), PropValue(parts)) ELSE e

\* props.forEach(...) from the i-th prop on.
RECURSIVE ForEachProp(_, _, _)
ForEachProp(e, ps, i) ==
  IF i > Len(ps) THEN e ELSE ForEachProp(ParseProp(e, ps[i]), ps, i + 1)

\* Truthy as the test 'k in email'.
TruthyIfPresent(e, k) == k \in DOMAIN e

\* The truth value of email.<k>: the property exists and is not "".
Truthy(e, k) == k \in DOMAIN e /\ e[k] # <<>>

\* email.subject || email.sender
PassesFilter(e) == Truthy(e, <<"subject">>) \/ Truthy(e, <<"sender">>)

\* email.<k> || dflt
OrDefault(e, k, dflt) == IF Truthy(e, k) THEN e[k] ELSE dflt

\* The object pushed to emailData ("acct" is args.account, now is
\* new Date().toString()).
EmailEntry(e) ==
  [subject  |-> OrDefault(e, <<"subject">>, <<"No subject">>),
   sender   |-> OrDefault(e, <<"sender">>, <<"Unknown sender">>),
   dateSent |-> OrDefault(e, <<"date">>, <<now>>),
   content  |-> OrDefault(e, <<"content">>, <<"[Content not available]">>),
   isRead   |-> FALSE,
   mailbox  |-> <<"acct", " - ">> \o OrDefault(e, <<"mailbox">>, <<"Unknown">>)]

\* The email object of one match and the whole parse, as functions of the
\* text (the composition of the steps above).
EmailOf(match) == ForEachProp(EmptyEmail, SplitProps(match), 1)

RECURSIVE FilterEmails(_, _)
FilterEmails(ms, i) ==
  IF i > Len(ms) THEN <<>>
  ELSE (IF PassesFilter(EmailOf(ms[i])) THEN <<EmailOf(ms[i])>> ELSE <<>>)
         \o FilterEmails(ms, i + 1)

DecodeRecords(text) == FilterEmails(RegexMatchAll(text), 1)

RECURSIVE Concat(_)
Concat(ss) == IF ss = <<>> THEN <<>> ELSE Head(ss) \o Concat(Tail(ss))

SeqsUpTo(S, n) == UNION {[1..k -> S] : k \in 0..n}

\* Drawn inputs, 1: "{" inner "}" for every short inner text without braces.
InnerUnits == {"subject", "sender", "x", ",", ":", " "}

BracedTexts ==
  {<<"{">> \o t \o <<"}">> : t \in SeqsUpTo(InnerUnits, MaxInner) \ {<<>>}}

\* Drawn inputs, 2: catenations of well-formed records and malformed
\* fragments (an opening brace that is never closed, an empty pair).
WellFormedPieces ==
  { <<"{", "subject", ":", "x", "}">>,
    <<"{", "sender", ":", "x", ",", " ", "x", ":", "x", "}">>,
    <<"{", "subject", ":", "x", ",", " ", "x", "}">>,
    <<"{", "x", ":", "x", "}">> }

MalformedPieces == { <<"{", "x">>, <<"{", "}">> }

PieceSeqs == SeqsUpTo(WellFormedPieces \cup MalformedPieces, MaxPieces)

\* Drawn inputs, 3: texts rendered from records.  A field has a key, a value
\* and a flag telling that it opens a new record; pad tells whether keys and
\* values are written with blanks around them.
FieldKeys == {<<"subject">>, <<"x">>}

FieldValues == {<<>>, <<"x">>, <<"x", ":", "x">>}

Fields == [key : FieldKeys, value : FieldValues, opens : BOOLEAN]

FieldSeqs == {fs \in SeqsUpTo(Fields, MaxSourceFields) : fs # <<>> /\ fs[1].opens}

Blank(pad) == IF pad THEN <<" ">> ELSE <<>>

RenderField(f, pad) ==
  Blank(pad) \o f.key \o Blank(pad) \o <<":">> \o Blank(pad) \o f.value \o Blank(pad)

RECURSIVE RenderFrom(_, _, _)
RenderFrom(fs, pad, i) ==
  IF i > Len(fs) THEN <<>>
  ELSE (IF fs[i].opens THEN <<"{">> ELSE <<",">>)
         \o RenderField(fs[i], pad)
         \o (IF i = Len(fs) \/ fs[i + 1].opens THEN <<"}">> ELSE <<>>)
         \o RenderFrom(fs, pad, i + 1)

Render(src) == RenderFrom(src.fields, src.pad, 1)

\* The script result has arrived and does not start with "Error:".
DecInit ==
  /\ LoaderInit
  /\ ExtIdle
  /\ \/ /\ origin = "braced"
        /\ source = <<>>
        /\ asResult \in BracedTexts
     \/ /\ origin = "pieces"
        /\ source \in PieceSeqs
        /\ asResult = Concat(source)
     \/ /\ origin = "rendered"
        /\ source \in [fields : FieldSeqs, pad : BOOLEAN]
        /\ asResult = Render(source)
  /\ decPc = "match"
  /\ matches = <<>>
  /\ idx = 0
  /\ props = <<>>
  /\ email = EmptyEmail
  /\ records = <<>>
  /\ emailData = <<>>

\* DecMatch without the null test (matches.length read on null): the
\* TypeError lands in the catch block, which calls the general method.
DecMatchNoNullCheck ==
  /\ decPc = "match"
  /\ matches' = RegexMatchAll(asResult)
  /\ idx' = 1
  /\ decPc' = IF Len(matches') > 0 THEN "loop" ELSE "fallback"
  /\ fallback' = IF Len(matches') > 0 THEN fallback ELSE "called"
  /\ UNCHANGED <<origin, source, asResult, props, email, records, emailData>>
  /\ UNCHANGED <<account, run, now, emails, response, first>>
  /\ UNCHANGED mailFrame

\* const matches = asResult.match(...); if (matches && matches.length > 0)
DecMatch ==
  /\ decPc = "match"
  /\ matches' = RegexMatchAll(asResult)
  /\ idx' = 1
  /\ decPc' = IF Len(matches') > 0 THEN "loop" ELSE "done"
  /\ UNCHANGED <<origin, source, asResult, props, email, records, emailData>>
  /\ UNCHANGED loaderVars
  /\ UNCHANGED extVars

\* for (const match of matches): const props = ...; const email = {}
DecSplit ==
  /\ decPc = "loop"
  /\ props' = SplitProps(matches[idx])
  /\ email' = EmptyEmail
  /\ decPc' = "forEach"
  /\ UNCHANGED <<origin, source, asResult, matches, idx, records, emailData>>
  /\ UNCHANGED loaderVars
  /\ UNCHANGED extVars

\* props.forEach(...)
DecForEach ==
  /\ decPc = "forEach"
  /\ email' = ForEachProp(email, props, 1)
  /\ decPc' = "filter"
  /\ UNCHANGED <<origin, source, asResult, matches, idx, props, records, emailData>>
  /\ UNCHANGED loaderVars
  /\ UNCHANGED extVars

\* if (email.subject || email.sender) emailData.push({...}); next match
DecFilter ==
  /\ decPc = "filter"
  /\ IF PassesFilter(email)
       THEN /\ emailData' = Append(emailData, EmailEntry(email))
            /\ records' = Append(records, email)
       ELSE UNCHANGED <<emailData, records>>
  /\ idx' = idx + 1
  /\ decPc' = IF idx + 1 > Len(matches) THEN "done" ELSE "loop"
  /\ UNCHANGED <<origin, source, asResult, matches, props, email>>
  /\ UNCHANGED loaderVars
  /\ UNCHANGED extVars

DecNext ==
  \/ DecMatch
  \/ DecSplit
  \/ DecForEach
  \/ DecFilter

DecSpec == DecInit /\ [][DecNext]_vars

(***************************************************************************)
(* The "unread" operation of the mail tool (src/index.ts 320-453 and       *)
(* 1817-1866): the account-scoped script, the parser above, the fallback   *)
(* to mailModule.getUnreadMails and the response.  The same request is     *)
(* served twice, the script returning the same text the second time.       *)
(***************************************************************************)

\* Largest number of pieces in a text returned by the script.
MaxMailPieces == 2

\* Largest number of emails returned by mailModule.getUnreadMails.
MaxInbox == 2

\* Records with and without a date, a record without subject and sender,
\* plain text and an opening brace that is never closed.
MailPieces ==
  { <<"{", "subject", ":", "x", "}">>,
    <<"{", "sender", ":", "x", ",", "date", ":", "x", "}">>,
    <<"{", "x", ":", "x", "}">>,
    <<"x">>,
    <<"{", "x">> }

ErrorPrefix == <<"Error", ":">>

\* What the script returns: a catenation of pieces, or "Error:" and such a
\* catenation.
MailTexts ==
  LET bodies == {Concat(ps) : ps \in SeqsUpTo(MailPieces, MaxMailPieces)}
  IN bodies \cup {ErrorPrefix \o b : b \in bodies}

\* asResult && asResult.startsWith('Error:')
StartsWithError(text) ==
  Len(text) >= Len(ErrorPrefix) /\ SubSeq(text, 1, Len(ErrorPrefix)) = ErrorPrefix

\* What mailModule.getUnreadMails resolves with: up to MaxInbox emails.
InboxResults ==
  LET mail == [subject |-> <<"s">>, sender |-> <<"f">>, dateSent |-> <<"d">>,
               content |-> <<"c">>, isRead |-> FALSE, mailbox |-> <<"Inbox">>]
  IN {[i \in 1..n |-> mail] : n \in 0..MaxInbox}

\* return { content: [{ text: emails.length > 0 ? `Found ${emails.length}
\* unread email(s)...` : `No unread emails found...` }], isError: false }
Response(ems) ==
  [kind |-> IF Len(ems) > 0 THEN "found" ELSE "none",
   found |-> Len(ems),
   isError |-> FALSE]

\* The catch block of the CallTool handler.
ErrorResponse == [kind |-> "error", found |-> 0, isError |-> TRUE]

\* An "unread" request has arrived; with args.account the script is
\* awaited, without it the general method.
MailInit ==
  /\ LoaderInit /\ NoteIdle /\ SimpleStart /\ ContactIdle /\ WebIdle
  /\ account \in BOOLEAN
  /\ run = 1
  /\ now = "t1"
  /\ fallback = IF account THEN "idle" ELSE "called"
  /\ emails = <<>>
  /\ response = NoResponse
  /\ first = NoFirst
  /\ origin = "none"
  /\ source = <<>>
  /\ asResult = <<>>
  /\ decPc = IF account THEN "script" ELSE "general"
  /\ matches = <<>>
  /\ idx = 0
  /\ props = <<>>
  /\ email = EmptyEmail
  /\ records = <<>>
  /\ emailData = <<>>

\* MailScriptReturns without the test of the "Error:" prefix.
MailScriptReturnsNoErrorCheck ==
  /\ decPc = "script"
  /\ \E text \in (IF run = 1 THEN MailTexts ELSE {asResult}) :
       /\ asResult' = text
       /\ origin' = "mail"
       /\ decPc' = "match"
       /\ UNCHANGED fallback
  /\ UNCHANGED <<source, matches, idx, props, email, records, emailData>>
  /\ UNCHANGED <<account, run, now, emails, response, first>>
  /\ UNCHANGED mailFrame

\* const asResult = await runAppleScript(script) resolves;
\* if (asResult && asResult.startsWith('Error:')) throw new Error(asResult),
\* which the catch block answers by calling mailModule.getUnreadMails.
MailScriptReturns ==
  /\ decPc = "script"
  /\ \E text \in (IF run = 1 THEN MailTexts ELSE {asResult}) :
       /\ asResult' = text
       /\ origin' = "mail"
       /\ IF StartsWithError(text)
            THEN decPc' = "fallback" /\ fallback' = "called"
            ELSE decPc' = "match" /\ UNCHANGED fallback
  /\ UNCHANGED <<source, matches, idx, props, email, records, emailData>>
  /\ UNCHANGED <<account, run, now, emails, response, first>>
  /\ UNCHANGED mailFrame

\* await runAppleScript(script) rejects: the catch block calls
\* mailModule.getUnreadMails.
MailScriptThrows ==
  /\ decPc = "script"
  /\ origin' = "threw"
  /\ decPc' = "fallback"
  /\ fallback' = "called"
  /\ UNCHANGED <<source, asResult, matches, idx, props, email, records, emailData>>
  /\ UNCHANGED <<account, run, now, emails, response, first>>
  /\ UNCHANGED mailFrame

\* emails = emailData; return {...}
MailRespond ==
  /\ decPc = "done"
  /\ emails' = emailData
  /\ response' = Response(emailData)
  /\ decPc' = "responded"
  /\ UNCHANGED <<origin, source, asResult, matches, idx, props, email, records,
                 emailData>>
  /\ UNCHANGED <<account, run, now, fallback, first>>
  /\ UNCHANGED mailFrame

\* emails = await mailModule.getUnreadMails(args.limit) resolves; return {...}
MailFallbackReturns ==
  /\ decPc \in {"fallback", "general"}
  /\ \E ems \in InboxResults :
       /\ emails' = ems
       /\ response' = Response(ems)
  /\ fallback' = "returned"
  /\ decPc' = "responded"
  /\ UNCHANGED <<origin, source, asResult, matches, idx, props, email, records,
                 emailData>>
  /\ UNCHANGED <<account, run, now, first>>
  /\ UNCHANGED mailFrame

\* await mailModule.getUnreadMails(args.limit) rejects: the catch block of
\* the CallTool handler answers.
MailFallbackThrows ==
  /\ decPc \in {"fallback", "general"}
  /\ response' = ErrorResponse
  /\ fallback' = "threw"
  /\ decPc' = "responded"
  /\ UNCHANGED <<origin, source, asResult, matches, idx, props, email, records,
                 emailData>>
  /\ UNCHANGED <<account, run, now, emails, first>>
  /\ UNCHANGED mailFrame

\* MailAgain with emailData declared outside the handler, so that the
\* second request appends to what the first left.
MailAgainKeepsData ==
  /\ decPc = "responded"
  /\ run = 1
  /\ first' = [data |-> emailData, records |-> records, fallback |-> fallback]
  /\ run' = 2
  /\ now' \in {"t1", "t2"}
  /\ origin' = "none"
  /\ decPc' = IF account THEN "script" ELSE "general"
  /\ fallback' = IF account THEN "idle" ELSE "called"
  /\ matches' = <<>>
  /\ idx' = 0
  /\ props' = <<>>
  /\ email' = EmptyEmail
  /\ emails' = <<>>
  /\ response' = NoResponse
  /\ UNCHANGED <<source, asResult, account, records, emailData>>
  /\ UNCHANGED mailFrame

\* The same request arrives again, at the same time or later: the handler
\* starts with fresh locals (let emails, const emailData, const matches).
MailAgain ==
  /\ decPc = "responded"
  /\ run = 1
  /\ first' = [data |-> emailData, records |-> records, fallback |-> fallback]
  /\ run' = 2
  /\ now' \in {"t1", "t2"}
  /\ origin' = "none"
  /\ decPc' = IF account THEN "script" ELSE "general"
  /\ fallback' = IF account THEN "idle" ELSE "called"
  /\ matches' = <<>>
  /\ idx' = 0
  /\ props' = <<>>
  /\ email' = EmptyEmail
  /\ records' = <<>>
  /\ emailData' = <<>>
  /\ emails' = <<>>
  /\ response' = NoResponse
  /\ UNCHANGED <<source, asResult, account>>
  /\ UNCHANGED mailFrame

MailNext ==
  \/ MailScriptReturns
  \/ MailScriptThrows
  \/ DecMatch
  \/ DecSplit
  \/ DecForEach
  \/ DecFilter
  \/ MailRespond
  \/ MailFallbackReturns
  \/ MailFallbackThrows
  \/ MailAgain

MailSpec == MailInit /\ [][MailNext]_vars

\* The parser and the return statement are synchronous code: once the
\* script result is there they run to the end.
MailFairSpec == MailSpec /\ WF_vars(DecNext) /\ WF_vars(MailRespond)

(***************************************************************************)
(* createNote (src/utils/notes.ts 57-114 and src/unnamed/part_003 57-136)  *)
(* and the "create" operation of the notes tool (src/index.ts 207-221).    *)
(* The function passed to run() talks to the Notes application; each of    *)
(* its requests to the application either succeeds or throws.              *)
(***************************************************************************)

\* Largest number of createNote calls in a behaviour.
MaxNoteCalls == 2

\* Folder names: the default of createNote, one that may exist and one that
\* never does.
FolderNames == {"Claude", "Work", "Missing"}

InitialFolders == SUBSET {"Claude", "Work"}

FolderArgs == FolderNames \cup {"undefined"}

\* folderName: string = 'Claude'
DefaultedFolder(arg) == IF arg = "undefined" THEN "Claude" ELSE arg

\* catch (error) { return { success: false, message: `Failed to create
\* note: ${...}` } }; part_003 rethrows every script error wrapped.
Failure(err) ==
  [success |-> FALSE,
   message |-> <<"Failed to create note: ">>
                 \o (IF noteVersion = "part3" THEN <<"AppleScript error: ">> ELSE <<>>)
                 \o <<err>>]

\* return { success: true, note, folderName: targetFolder ? folderName :
\* 'Default', usedDefaultFolder }
Success(target, used) ==
  [success |-> TRUE,
   folderName |-> IF target # NULL THEN folderName ELSE "Default",
   usedDefaultFolder |-> used]

NoteInit ==
  /\ LoaderInit /\ DecoderIdle /\ MailIdle /\ SimpleStart /\ ContactIdle
  /\ WebIdle
  /\ noteVersion \in {"utils", "part3"}
  /\ folders \in InitialFolders
  /\ notes = <<>>
  /\ notePc = "idle"
  /\ folderArg = "undefined"
  /\ folderName = "Claude"
  /\ targetFolder = NULL
  /\ usedDefaultFolder = FALSE
  /\ noteResult = NoResult
  /\ noteResponse = [kind |-> "pending", isError |-> FALSE]
  /\ noteBefore = [folders |-> {}, notes |-> <<>>]
  /\ noteCalls = 0

\* case "create": await notesModule.createNote(args.title, args.body,
\* args.folderName), up to the first request to the Notes application.
NoteCall ==
  /\ notePc = "idle"
  /\ noteCalls < MaxNoteCalls
  /\ \E arg \in FolderArgs :
       /\ folderArg' = arg
       /\ folderName' = DefaultedFolder(arg)
  /\ targetFolder' = NULL
  /\ usedDefaultFolder' = FALSE
  /\ noteBefore' = [folders |-> folders, notes |-> notes]
  /\ noteCalls' = noteCalls + 1
  /\ notePc' = "find"
  /\ UNCHANGED <<noteVersion, folders, notes, noteResult, noteResponse>>
  /\ UNCHANGED noteFrame

\* createNote ends with the failure result.
Fail(err) ==
  /\ noteResult' = Failure(err)
  /\ notePc' = "returned"

\* NoteFindOk that puts the note in the default location when the named
\* folder is missing, whatever its name.
NoteFindOkNeverThrows ==
  /\ notePc = "find"
  /\ IF folderName \in folders
       THEN /\ targetFolder' = folderName
            /\ notePc' = "makeNote"
            /\ UNCHANGED noteResult
       ELSE IF folderName = "Claude"
         THEN /\ notePc' = "makeFolder"
              /\ UNCHANGED <<targetFolder, noteResult>>
         ELSE /\ notePc' = "makeNote"
              /\ UNCHANGED <<targetFolder, noteResult>>
  /\ UNCHANGED <<noteVersion, folders, notes, folderArg, folderName,
                 usedDefaultFolder, noteResponse, noteBefore, noteCalls>>
  /\ UNCHANGED noteFrame

\* const folders = Notes.folders() succeeds; the folder is looked up by
\* name; if (!targetFolder) { if (folderName === 'Claude') ... else throw
\* new Error(`Folder "${folderName}" not found`) }
NoteFindOk ==
  /\ notePc = "find"
  /\ IF folderName \in folders
       THEN /\ targetFolder' = folderName
            /\ notePc' = "makeNote"
            /\ UNCHANGED noteResult
       ELSE IF folderName = "Claude"
         THEN /\ notePc' = "makeFolder"
              /\ UNCHANGED <<targetFolder, noteResult>>
         ELSE /\ Fail("Folder not found")
              /\ UNCHANGED targetFolder
  /\ UNCHANGED <<noteVersion, folders, notes, folderArg, folderName,
                 usedDefaultFolder, noteResponse, noteBefore, noteCalls>>
  /\ UNCHANGED noteFrame

\* Notes.folders() throws (or run() itself fails).
NoteFindThrows ==
  /\ notePc = "find"
  /\ Fail("Notes error")
  /\ UNCHANGED <<noteVersion, folders, notes, folderArg, folderName,
                 targetFolder, usedDefaultFolder, noteResponse, noteBefore,
                 noteCalls>>
  /\ UNCHANGED noteFrame

\* NoteMakeFolderOk that forgets usedDefaultFolder = true.
NoteMakeFolderOkSilent ==
  /\ notePc = "makeFolder"
  /\ folders' = folders \cup {"Claude"}
  /\ IF noteVersion = "utils"
       THEN targetFolder' = "Claude" /\ notePc' = "makeNote"
       ELSE UNCHANGED targetFolder /\ notePc' = "refind"
  /\ UNCHANGED <<noteVersion, notes, folderArg, folderName, usedDefaultFolder,
                 noteResult, noteResponse, noteBefore, noteCalls>>
  /\ UNCHANGED noteFrame

\* The folder 'Claude' is made: targetFolder = Notes.Folder.make(...) in
\* utils/notes.ts; Notes.make({new: 'folder', ...}) in part_003, which then
\* reads the folders again; usedDefaultFolder = true.
NoteMakeFolderOk ==
  /\ notePc = "makeFolder"
  /\ folders' = folders \cup {"Claude"}
  /\ usedDefaultFolder' = TRUE
  /\ IF noteVersion = "utils"
       THEN targetFolder' = "Claude" /\ notePc' = "makeNote"
       ELSE UNCHANGED targetFolder /\ notePc' = "refind"
  /\ UNCHANGED <<noteVersion, notes, folderArg, folderName, noteResult,
                 noteResponse, noteBefore, noteCalls>>
  /\ UNCHANGED noteFrame

\* Making the folder throws: utils/notes.ts catches it and sets
\* targetFolder = null; part_003 has no inner handler for it.
NoteMakeFolderThrows ==
  /\ notePc = "makeFolder"
  /\ IF noteVersion = "utils"
       THEN /\ targetFolder' = NULL
            /\ notePc' = "makeNote"
            /\ UNCHANGED noteResult
       ELSE /\ Fail("Notes error")
            /\ UNCHANGED targetFolder
  /\ UNCHANGED <<noteVersion, folders, notes, folderArg, folderName,
                 usedDefaultFolder, noteResponse, noteBefore, noteCalls>>
  /\ UNCHANGED noteFrame

\* part_003: const updatedFolders = Notes.folders() and the second lookup.
NoteRefindOk ==
  /\ notePc = "refind"
  /\ targetFolder' = IF "Claude" \in folders THEN "Claude" ELSE NULL
  /\ notePc' = "makeNote"
  /\ UNCHANGED <<noteVersion, folders, notes, folderArg, folderName,
                 usedDefaultFolder, noteResult, noteResponse, noteBefore,
                 noteCalls>>
  /\ UNCHANGED noteFrame

NoteRefindThrows ==
  /\ notePc = "refind"
  /\ Fail("Notes error")
  /\ UNCHANGED <<noteVersion, folders, notes, folderArg, folderName,
                 targetFolder, usedDefaultFolder, noteResponse, noteBefore,
                 noteCalls>>
  /\ UNCHANGED noteFrame

\* The note is made, in targetFolder if there is one and in the default
\* location otherwise, and the success result is returned.
NoteMakeNoteOk ==
  /\ notePc = "makeNote"
  /\ notes' = Append(notes, IF targetFolder # NULL THEN targetFolder ELSE "Default")
  /\ noteResult' = Success(targetFolder, usedDefaultFolder)
  /\ notePc' = "returned"
  /\ UNCHANGED <<noteVersion, folders, folderArg, folderName, targetFolder,
                 usedDefaultFolder, noteResponse, noteBefore, noteCalls>>
  /\ UNCHANGED noteFrame

NoteMakeNoteThrows ==
  /\ notePc = "makeNote"
  /\ Fail("Notes error")
  /\ UNCHANGED <<noteVersion, folders, notes, folderArg, folderName,
                 targetFolder, usedDefaultFolder, noteResponse, noteBefore,
                 noteCalls>>
  /\ UNCHANGED noteFrame

\* The handler answers: text by result.success, isError: !result.success.
NoteRespond ==
  /\ notePc = "returned"
  /\ noteResponse' =
       [kind |-> IF ~noteResult.success THEN "failed"
                 ELSE IF noteResult.usedDefaultFolder THEN "created new folder"
                 ELSE "created",
        isError |-> ~noteResult.success]
  /\ notePc' = "idle"
  /\ UNCHANGED <<noteVersion, folders, notes, folderArg, folderName,
                 targetFolder, usedDefaultFolder, noteResult, noteBefore,
                 noteCalls>>
  /\ UNCHANGED noteFrame

NoteNext ==
  \/ NoteCall
  \/ NoteFindOk
  \/ NoteFindThrows
  \/ NoteMakeFolderOk
  \/ NoteMakeFolderThrows
  \/ NoteRefindOk
  \/ NoteRefindThrows
  \/ NoteMakeNoteOk
  \/ NoteMakeNoteThrows
  \/ NoteRespond

NoteSpec == NoteInit /\ [][NoteNext]_vars

(***************************************************************************)
(* The simplified program (src/index.ts 1-1203): loadModules, initServer   *)
(* and the CallTool handler.  A request is told by its tool name and by    *)
(* what its arguments are like; the handler runs from one await to the     *)
(* next in each action.                                                    *)
(***************************************************************************)

LastSimple == SimpleOrder[Len(SimpleOrder)]

NextSimple(m) ==
  SimpleOrder[(CHOOSE i \in 1..Len(SimpleOrder) : SimpleOrder[i] = m) + 1]

\* Largest number of unread messages from others that getUnreadMessages
\* returns.
MaxUnread == 2

\* The cases of switch (name).
ToolNames ==
  {"contacts", "notes", "messages", "mail", "reminders", "webSearch",
   "calendar", "maps"}

\* The module that the case of a tool asks of loadModuleForTool.
ModuleOf(tool) == IF tool = "messages" THEN "message" ELSE tool

\* Arguments: absent; rejected by the type guard of the tool; accepted by
\* the guard but refused by the operation (a required field is empty or
\* the operation is unknown to the switch); fit for the backend call.
ArgKinds == {"none", "invalid", "incomplete", "valid"}

\* The catch block of the CallTool handler and the default case of
\* switch (name): content and isError: true.
ErrorReply == [kind |-> "error", isError |-> TRUE]

\* The return of an operation: isError is false or !result.success.
ResultReply(failed) == [kind |-> "result", isError |-> failed]

SimpleInit == LoaderInit /\ DecoderIdle /\ MailIdle /\ NoteIdle /\ ContactIdle /\ WebIdle /\ SimpleStart

\* What is left of the request state by a step that does not touch it.
RequestUnchanged ==
  UNCHANGED <<reqPc, reqTool, reqArgs, reqCause, reqResponse, resolved,
              backendCalls, slotsBefore>>

\* An import of loadModules resolves: the slot is written and the next
\* import awaited; after maps, loadModules returns and initServer creates
\* the server, registers the handlers and awaits server.connect.
SimpleImportOk ==
  /\ simplePc \in SimpleModules
  /\ slots' = [slots EXCEPT ![simplePc] = LOADED]
  /\ importLog' = Append(importLog, simplePc)
  /\ IF simplePc = LastSimple
       THEN handlers' = TRUE /\ simplePc' = "connecting"
       ELSE UNCHANGED handlers /\ simplePc' = NextSimple(simplePc)
  /\ UNCHANGED <<importFailed, exitCode>>
  /\ RequestUnchanged
  /\ UNCHANGED simpleFrame

\* SimpleImportFail that logs the error and goes on with the next module.
SimpleImportFailGoesOn ==
  /\ simplePc \in SimpleModules
  /\ importFailed' = TRUE
  /\ IF simplePc = LastSimple
       THEN handlers' = TRUE /\ simplePc' = "connecting"
       ELSE UNCHANGED handlers /\ simplePc' = NextSimple(simplePc)
  /\ UNCHANGED <<slots, importLog, exitCode>>
  /\ RequestUnchanged
  /\ UNCHANGED simpleFrame

\* An import of loadModules is rejected: catch, process.exit(1).
SimpleImportFail ==
  /\ simplePc \in SimpleModules
  /\ importFailed' = TRUE
  /\ exitCode' = 1
  /\ simplePc' = "exited"
  /\ UNCHANGED <<slots, importLog, handlers>>
  /\ RequestUnchanged
  /\ UNCHANGED simpleFrame

\* await server.connect(transport) resolves.
SimpleConnectOk ==
  /\ simplePc = "connecting"
  /\ simplePc' = "serving"
  /\ UNCHANGED <<slots, importLog, importFailed, handlers, exitCode>>
  /\ RequestUnchanged
  /\ UNCHANGED simpleFrame

\* await server.connect(transport) is rejected: catch, process.exit(1).
SimpleConnectFail ==
  /\ simplePc = "connecting"
  /\ exitCode' = 1
  /\ simplePc' = "exited"
  /\ UNCHANGED <<slots, importLog, importFailed, handlers>>
  /\ RequestUnchanged
  /\ UNCHANGED simpleFrame

\* The handler ends in its catch block (or in the default case of the
\* switch) because of cause.
ReplyError(cause) ==
  /\ reqCause' = cause
  /\ reqResponse' = ErrorReply
  /\ reqPc' = "responded"

\* loadModuleForTool(m): if (!slot) slot = (await import(...)).default;
\* return slot.  Every slot is loaded once the transport is connected, so
\* no import is started.
LoadModuleForTool(m) ==
  /\ resolved' = resolved \cup {m}
  /\ UNCHANGED slots

\* ReqArrive with loadModuleForTool called ahead of the type guard.
ReqArriveResolvesFirst ==
  /\ simplePc = "serving"
  /\ reqPc = "idle"
  /\ \E tool \in ToolNames \cup {"bogus"}, args \in ArgKinds :
       /\ reqTool' = tool
       /\ reqArgs' = args
       /\ IF args = "none"
            THEN ReplyError("no arguments") /\ UNCHANGED <<resolved, slots>>
            ELSE IF tool \notin ToolNames
              THEN ReplyError("unknown tool") /\ UNCHANGED <<resolved, slots>>
              ELSE IF args = "invalid"
                THEN /\ LoadModuleForTool(ModuleOf(tool))
                     /\ ReplyError("invalid arguments")
                ELSE /\ LoadModuleForTool(ModuleOf(tool))
                     /\ reqPc' = "resolved"
                     /\ UNCHANGED <<reqCause, reqResponse>>
  /\ slotsBefore' = slots
  /\ UNCHANGED backendCalls
  /\ UNCHANGED <<simplePc, importLog, importFailed, handlers, exitCode>>
  /\ UNCHANGED simpleFrame

\* A CallTool request arrives: if (!args) throw; switch (name); the type
\* guard of the tool; await loadModuleForTool(...).
ReqArrive ==
  /\ simplePc = "serving"
  /\ reqPc = "idle"
  /\ \E tool \in ToolNames \cup {"bogus"}, args \in ArgKinds :
       /\ reqTool' = tool
       /\ reqArgs' = args
       /\ IF args = "none"
            THEN ReplyError("no arguments") /\ UNCHANGED <<resolved, slots>>
            ELSE IF tool \notin ToolNames
              THEN ReplyError("unknown tool") /\ UNCHANGED <<resolved, slots>>
              ELSE IF args = "invalid"
                THEN /\ ReplyError("invalid arguments")
                     /\ UNCHANGED <<resolved, slots>>
                ELSE /\ LoadModuleForTool(ModuleOf(tool))
                     /\ reqPc' = "resolved"
                     /\ UNCHANGED <<reqCause, reqResponse>>
  /\ slotsBefore' = slots
  /\ UNCHANGED backendCalls
  /\ UNCHANGED <<simplePc, importLog, importFailed, handlers, exitCode>>
  /\ UNCHANGED simpleFrame

\* What the simplified loader leaves alone while a request is handled.
StartupUnchanged ==
  UNCHANGED <<simplePc, importLog, importFailed, handlers, exitCode>>

\* After await loadModuleForTool: the switch on the operation.  It throws
\* on a missing field or an unknown operation; the mail case awaits
\* import('run-applescript') first; otherwise the module function is
\* called and awaited.
ReqResolved ==
  /\ reqPc = "resolved"
  /\ IF reqTool = "mail"
       THEN /\ reqPc' = "runner"
            /\ UNCHANGED <<reqCause, reqResponse, backendCalls>>
       ELSE IF reqArgs = "incomplete"
         THEN ReplyError("operation refused") /\ UNCHANGED backendCalls
         ELSE /\ backendCalls' = backendCalls + 1
              /\ reqPc' = "calling"
              /\ UNCHANGED <<reqCause, reqResponse>>
  /\ UNCHANGED <<reqTool, reqArgs, resolved, slots, slotsBefore>>
  /\ StartupUnchanged
  /\ UNCHANGED simpleFrame

\* case "mail": await import('run-applescript') resolves, then the switch
\* on the operation.
ReqRunnerOk ==
  /\ reqPc = "runner"
  /\ IF reqArgs = "incomplete"
       THEN ReplyError("operation refused") /\ UNCHANGED backendCalls
       ELSE /\ backendCalls' = backendCalls + 1
            /\ reqPc' = "calling"
            /\ UNCHANGED <<reqCause, reqResponse>>
  /\ UNCHANGED <<reqTool, reqArgs, resolved, slots, slotsBefore>>
  /\ StartupUnchanged
  /\ UNCHANGED simpleFrame

\* case "mail": await import('run-applescript') is rejected.
ReqRunnerFail ==
  /\ reqPc = "runner"
  /\ ReplyError("load failure")
  /\ UNCHANGED <<reqTool, reqArgs, resolved, backendCalls, slots, slotsBefore>>
  /\ StartupUnchanged
  /\ UNCHANGED simpleFrame

\* The awaited module function resolves and the operation returns its
\* response, with isError false or !result.success.
ReqBackendOk ==
  /\ reqPc = "calling"
  /\ \E failed \in BOOLEAN : reqResponse' = ResultReply(failed)
  /\ reqPc' = "responded"
  /\ UNCHANGED <<reqTool, reqArgs, reqCause, resolved, backendCalls, slots,
                 slotsBefore>>
  /\ StartupUnchanged
  /\ UNCHANGED simpleFrame

\* messages "unread": await messageModule.getUnreadMessages resolves with
\* n messages from others; await loadModuleForTool('contacts'), then
\* contactsModule.findContactByPhone is called for each of them.
ReqUnreadMessages ==
  /\ reqPc = "calling"
  /\ reqTool = "messages"
  /\ LoadModuleForTool("contacts")
  /\ \E n \in 0..MaxUnread : backendCalls' = backendCalls + n
  /\ reqPc' = "naming"
  /\ UNCHANGED <<reqTool, reqArgs, reqCause, reqResponse, slotsBefore>>
  /\ StartupUnchanged
  /\ UNCHANGED simpleFrame

\* messages "unread": Promise.all resolves (findContactByPhone does not
\* reject) and the messages are returned with isError false.
ReqNamesDone ==
  /\ reqPc = "naming"
  /\ reqResponse' = ResultReply(FALSE)
  /\ reqPc' = "responded"
  /\ UNCHANGED <<reqTool, reqArgs, reqCause, resolved, backendCalls, slots,
                 slotsBefore>>
  /\ StartupUnchanged
  /\ UNCHANGED simpleFrame

\* ReqBackendThrows without the try block around the switch: the promise
\* of the handler is rejected.
ReqBackendThrowsUncaught ==
  /\ reqPc = "calling"
  /\ reqCause' = "backend failure"
  /\ reqResponse' = [kind |-> "rejected", isError |-> FALSE]
  /\ reqPc' = "responded"
  /\ UNCHANGED <<reqTool, reqArgs, resolved, backendCalls, slots, slotsBefore>>
  /\ StartupUnchanged
  /\ UNCHANGED simpleFrame

\* The awaited module function is rejected: the catch block answers.
ReqBackendThrows ==
  /\ reqPc = "calling"
  /\ ReplyError("backend failure")
  /\ UNCHANGED <<reqTool, reqArgs, resolved, backendCalls, slots, slotsBefore>>
  /\ StartupUnchanged
  /\ UNCHANGED simpleFrame

\* The response has been sent; the handler is ready for the next request.
ReqDone ==
  /\ reqPc = "responded"
  /\ reqPc' = "idle"
  /\ reqTool' = "none"
  /\ reqArgs' = "none"
  /\ reqCause' = "none"
  /\ reqResponse' = NoReply
  /\ resolved' = {}
  /\ backendCalls' = 0
  /\ UNCHANGED <<slots, slotsBefore>>
  /\ StartupUnchanged
  /\ UNCHANGED simpleFrame

SimpleNext ==
  \/ SimpleImportOk
  \/ SimpleImportFail
  \/ SimpleConnectOk
  \/ SimpleConnectFail
  \/ ReqArrive
  \/ ReqResolved
  \/ ReqRunnerOk
  \/ ReqRunnerFail
  \/ ReqBackendOk
  \/ ReqBackendThrows
  \/ ReqUnreadMessages
  \/ ReqNamesDone
  \/ ReqDone

SimpleSpec == SimpleInit /\ [][SimpleNext]_vars

(***************************************************************************)
(* findContactByPhone (src/utils/contacts.ts 79-109) with                  *)
(* checkContactsAccess (4-15), and its use by the "unread" case of the     *)
(* messages tool (src/index.ts 276-293).  A phone number is a sequence of  *)
(* characters.                                                             *)
(***************************************************************************)

\* Longest phone number searched for.
MaxPhoneLen == 3

\* Largest number of contacts returned by getAllNumbers.
MaxContacts == 2

\* Characters of a phone number: '+', a digit, and one that is neither.
PhoneChars == {"+", "1", "-"}

Kept == {"+", "1"}

PhoneTexts == SeqsUpTo(PhoneChars, MaxPhoneLen)

\* s.replace(/[^0-9+]/g, '')
RECURSIVE Normalize(_)
Normalize(s) ==
  IF s = <<>> THEN <<>>
  ELSE (IF Head(s) \in Kept THEN <<Head(s)>> ELSE <<>>) \o Normalize(Tail(s))

\* Numbers found in the address book.
BookNumbers ==
  { <<"1">>, <<"+", "1">>, <<"+", "1", "1">>, <<"1", "-", "1">>, <<"-">>,
    <<"+", "-", "1", "1">> }

ContactNames == <<"Ann", "Bob", "Cy", "Di">>

\* Object.entries(allContacts): the i-th entry has the i-th name and one or
\* two numbers.
Books ==
  LET NumberLists ==
        {<<n>> : n \in BookNumbers} \cup {<<<<"-">>, n>> : n \in BookNumbers}
  IN UNION {{[i \in 1..k |-> [name |-> ContactNames[i], numbers |-> f[i]]] :
               f \in [1..k -> NumberLists]} : k \in 0..MaxContacts}

\* PhoneMatches without the clauses on the '+1' prefix.
PhoneMatchesPlusOnly(num, s) ==
  \/ num = s
  \/ num = <<"+">> \o s

\* num === searchNumber || num === `+${searchNumber}` ||
\* num === `+1${searchNumber}` || `+1${num}` === searchNumber
PhoneMatches(num, s) ==
  \/ num = s
  \/ num = <<"+">> \o s
  \/ num = <<"+", "1">> \o s
  \/ <<"+", "1">> \o num = s

\* normalizedNumbers.some(...)
SomeMatches(numbers, s) ==
  \E j \in 1..Len(numbers) : PhoneMatches(Normalize(numbers[j]), s)

\* for (const [name, numbers] of Object.entries(allContacts)) { if (...)
\* return name; } return null
RECURSIVE FirstMatch(_, _, _)
FirstMatch(book, s, i) ==
  IF i > Len(book) THEN NULL
  ELSE IF SomeMatches(book[i].numbers, s) THEN book[i].name
  ELSE FirstMatch(book, s, i + 1)

\* findContactByPhone(msg.sender) has been called and awaits
\* checkContactsAccess().
ContactInit ==
  /\ LoaderInit /\ DecoderIdle /\ MailIdle /\ NoteIdle /\ SimpleStart /\ WebIdle
  /\ contactPc = "access"
  /\ phoneNumber \in PhoneTexts
  /\ searchNumber = <<>>
  /\ allContacts = <<>>
  /\ contactFailed = "none"
  /\ contactResult = NULL
  /\ displayName = <<>>

\* checkContactsAccess() resolves with true: searchNumber is computed and
\* getAllNumbers() awaited.
ContactAccessOk ==
  /\ contactPc = "access"
  /\ searchNumber' = Normalize(phoneNumber)
  /\ contactPc' = "numbers"
  /\ UNCHANGED <<phoneNumber, allContacts, contactFailed, contactResult,
                 displayName>>
  /\ UNCHANGED contactFrame

\* checkContactsAccess() throws "Cannot access Contacts app...": catch,
\* return null.
ContactAccessDenied ==
  /\ contactPc = "access"
  /\ contactFailed' = "access"
  /\ contactResult' = NULL
  /\ contactPc' = "returned"
  /\ UNCHANGED <<phoneNumber, searchNumber, allContacts, displayName>>
  /\ UNCHANGED contactFrame

\* getAllNumbers() resolves: the first matching entry's name is returned,
\* or null.
ContactNumbersOk ==
  /\ contactPc = "numbers"
  /\ \E book \in Books :
       /\ allContacts' = book
       /\ contactResult' = FirstMatch(book, searchNumber, 1)
  /\ contactPc' = "returned"
  /\ UNCHANGED <<phoneNumber, searchNumber, contactFailed, displayName>>
  /\ UNCHANGED contactFrame

\* getAllNumbers() throws: catch, return null.
ContactNumbersThrows ==
  /\ contactPc = "numbers"
  /\ contactFailed' = "numbers"
  /\ contactResult' = NULL
  /\ contactPc' = "returned"
  /\ UNCHANGED <<phoneNumber, searchNumber, allContacts, displayName>>
  /\ UNCHANGED contactFrame

\* displayName: contactName || msg.sender
ContactDisplay ==
  /\ contactPc = "returned"
  /\ displayName' = IF contactResult # NULL THEN <<contactResult>> ELSE phoneNumber
  /\ contactPc' = "displayed"
  /\ UNCHANGED <<phoneNumber, searchNumber, allContacts, contactFailed,
                 contactResult>>
  /\ UNCHANGED contactFrame

ContactNext ==
  \/ ContactAccessOk
  \/ ContactAccessDenied
  \/ ContactNumbersOk
  \/ ContactNumbersThrows
  \/ ContactDisplay

ContactSpec == ContactInit /\ [][ContactNext]_vars

(***************************************************************************)
(* webSearch (src/unnamed/part_001 257-318) with extractDDGResults         *)
(* (79-122), searchDuckDuckGo (127-150) and fetchPageContent (225-250).    *)
(* The search page is told by its result blocks; the pages of the results  *)
(* are fetched concurrently and settle in any order.                       *)
(***************************************************************************)

\* Largest number of result blocks in the search page.
MaxBlocks == 4

\* while (... && count < 3)
ResultLimit == 3

\* Search pages: for each block, whether all four parts are matched.
Pages == UNION {[1..k -> BOOLEAN] : k \in 0..MaxBlocks}

\* extractDDGResults: the blocks with all four parts, in order, until
\* count reaches the limit (a block is named by its position).
RECURSIVE ExtractDDGResults(_, _, _)
ExtractDDGResults(page, i, count) ==
  IF i > Len(page) \/ count >= ResultLimit THEN <<>>
  ELSE IF page[i] THEN <<i>> \o ExtractDDGResults(page, i + 1, count + 1)
  ELSE ExtractDDGResults(page, i + 1, count)

\* The entry of result r in fullResults, by how its fetch ended:
\* {...result, content: contentData.content, error: contentData.error}
FullResult(r, outcome) ==
  [url |-> r,
   content |-> IF outcome = "ok" THEN "text" ELSE NULL,
   error |-> IF outcome = "ok" THEN "none" ELSE "fetch error"]

\* webSearch(query) has been called and awaits searchDuckDuckGo(query).
WebInit ==
  /\ LoaderInit /\ DecoderIdle /\ MailIdle /\ NoteIdle /\ SimpleStart
  /\ ContactIdle
  /\ webPc = "searching"
  /\ html = <<>>
  /\ searchFailed = FALSE
  /\ searchResults = <<>>
  /\ fetches = <<>>
  /\ webResult = NoWebResult

\* makeRequest of the search throws: searchDuckDuckGo returns {error,
\* results: []} and webSearch returns {query, error, results: []}.
WebSearchFails ==
  /\ webPc = "searching"
  /\ searchFailed' = TRUE
  /\ webResult' = [results |-> <<>>, error |-> "search error"]
  /\ webPc' = "returned"
  /\ UNCHANGED <<html, searchResults, fetches>>
  /\ UNCHANGED webFrame

\* The search page arrives: without results webSearch returns the error
\* "No search results found"; otherwise fetchPageContent is started for
\* every result.
WebSearchReturns ==
  /\ webPc = "searching"
  /\ \E page \in Pages :
       /\ html' = page
       /\ searchResults' = ExtractDDGResults(page, 1, 0)
  /\ IF Len(searchResults') = 0
       THEN /\ webResult' = [results |-> <<>>, error |-> "No search results found"]
            /\ webPc' = "returned"
            /\ UNCHANGED fetches
       ELSE /\ fetches' = [i \in 1..Len(searchResults') |-> "pending"]
            /\ webPc' = "fetching"
            /\ UNCHANGED webResult
  /\ UNCHANGED searchFailed
  /\ UNCHANGED webFrame

\* fetchPageContent of result i resolves with the content of the page.
WebFetchOk(i) ==
  /\ webPc = "fetching"
  /\ fetches[i] = "pending"
  /\ fetches' = [fetches EXCEPT ![i] = "ok"]
  /\ UNCHANGED <<webPc, html, searchFailed, searchResults, webResult>>
  /\ UNCHANGED webFrame

\* WebFetchFails with Promise.all and no handler per result: one failure
\* rejects the whole and the catch of webSearch returns no result.
WebFetchFailsAll(i) ==
  /\ webPc = "fetching"
  /\ fetches[i] = "pending"
  /\ fetches' = [fetches EXCEPT ![i] = "failed"]
  /\ webResult' = [results |-> <<>>, error |-> "fetch error"]
  /\ webPc' = "returned"
  /\ UNCHANGED <<html, searchFailed, searchResults>>
  /\ UNCHANGED webFrame

\* makeRequest of the page of result i throws: fetchPageContent returns
\* {url, error, content: null}.
WebFetchFails(i) ==
  /\ webPc = "fetching"
  /\ fetches[i] = "pending"
  /\ fetches' = [fetches EXCEPT ![i] = "failed"]
  /\ UNCHANGED <<webPc, html, searchFailed, searchResults, webResult>>
  /\ UNCHANGED webFrame

\* await Promise.allSettled(fetchPromises) resolves: return {query,
\* results: fullResults}.
WebAllSettled ==
  /\ webPc = "fetching"
  /\ \A i \in 1..Len(fetches) : fetches[i] # "pending"
  /\ webResult' =
       [results |-> [i \in 1..Len(searchResults) |->
                       FullResult(searchResults[i], fetches[i])],
        error |-> "none"]
  /\ webPc' = "returned"
  /\ UNCHANGED <<html, searchFailed, searchResults, fetches>>
  /\ UNCHANGED webFrame

WebNext ==
  \/ WebSearchFails
  \/ WebSearchReturns
  \/ \E i \in 1..ResultLimit : i <= Len(fetches) /\ WebFetchOk(i)
  \/ \E i \in 1..ResultLimit : i <= Len(fetches) /\ WebFetchFails(i)
  \/ WebAllSettled

WebSpec == WebInit /\ [][WebNext]_vars


(***************************************************************************)
(* Properties                                                              *)
(***************************************************************************)

\* The timer/eager-load race has been decided.
RaceDecided == timer = "fired" \/ eagerPc \in {"returned", "caught"}

\* The race is over for good: the timer cannot fire any more and
\* attemptEagerLoading has run to its end.
RaceOver == timer # "pending" /\ eagerPc \notin Modules

\* C1: single-flight -- for every module at most one import() is in flight
\* at any time, whoever asked for it (eager load or loadModule).
C1_SingleFlight == \A m \in Modules : InFlight(m) <= 1

\* C2: "ready" is signalled at most once: initServer runs at most once.
C2_ReadyAtMostOnce == servers <= 1

\* C3: startup never hangs: initServer eventually runs, whether or not any
\* import ever settles.
C3_ReadyEventually == <>(servers > 0)

C3_Witness == servers > 0 /\ timer = "fired" /\ eagerPc \in Modules

\* C4: once the timer has fired, no step of attemptEagerLoading writes a
\* module slot.
C4_NoEagerWriteAfterTimer ==
  [][(timer = "fired" /\ eagerPc' # eagerPc) => modules' = modules]_vars

\* C5: once the timer has fired, the failure of the abandoned eager load
\* changes neither the loader mode nor any module slot.
C5_LoserHasNoEffect ==
  [][(timer = "fired" /\ eagerPc \in Modules /\ eagerPc' = "caught")
       => /\ modules' = modules
          /\ safeModeFallback' = safeModeFallback
          /\ useEagerLoading' = useEagerLoading]_vars

\* C6 (as claimed): a loaded slot is never reset and its import is never
\* issued again.
C6_LoadedForever ==
  [][\A m \in Modules :
       modules[m] # NULL => (modules'[m] # NULL /\ InFlight(m)' <= InFlight(m))]_vars

\* C6 (amended): once the race is over (the timer has fired or was cleared
\* and attemptEagerLoading has run to its end), a loaded slot is never reset
\* and its import is never issued again.
C6_LoadedForeverAfterRace ==
  [][\A m \in Modules :
       (RaceOver /\ modules[m] # NULL)
         => (modules'[m] # NULL /\ InFlight(m)' <= InFlight(m))]_vars

C6_Witness ==
  RaceOver /\ lastReturn = "cached" /\ \E m \in Modules : modules[m] # NULL

\* C7: no tool call before "ready": a server exists only once the race has
\* been decided, transports are connected only by initServer, and loadModule
\* is only ever called with a transport connected.
C7_NoDispatchBeforeReady ==
  /\ servers > 0 => RaceDecided
  /\ connecting + connected <= servers
  /\ ((\E m \in Modules : lazyPending[m] > 0) \/ lastReturn # "none")
       => connected > 0

C7_Witness == lastReturn # "none" /\ connected > 0 /\ RaceDecided

\* C8: the loader mode starts Eager and only ever changes from Eager to
\* Safe; useEagerLoading stays the negation of safeModeFallback.
C8_ModeMonotonic ==
  /\ safeModeFallback = FALSE
  /\ [][/\ safeModeFallback => safeModeFallback'
        /\ useEagerLoading' = ~safeModeFallback']_vars

C8_Witness == safeModeFallback /\ timer = "fired" /\ eagerPc = "returned"

\* C9: when every eager import has succeeded and the timer has not fired,
\* the timer is cleared (and stays so), the mode is Eager, initServer has run
\* once and every slot is loaded.
C9_EagerSuccess ==
  /\ [](eagerPc = "returned" /\ timer # "fired"
          => /\ timer = "cleared"
             /\ ~safeModeFallback
             /\ useEagerLoading
             /\ servers = 1
             /\ \A m \in Modules : modules[m] # NULL)
  /\ [][(eagerPc = "returned" /\ timer = "cleared") => timer' = "cleared"]_vars

C9_Witness ==
  eagerPc = "returned" /\ timer = "cleared" /\ servers = 1 /\ connected = 1

\* C10: when an eager import fails with the timer still pending, that step
\* clears the timer, resets every slot, sets the mode to Safe and runs
\* initServer; the timer does not fire afterwards.
C10_EagerFailure ==
  /\ [][(eagerPc \in Modules /\ eagerPc' = "caught" /\ timer = "pending")
          => /\ timer' = "cleared"
             /\ modules' = ClearedModules
             /\ safeModeFallback'
             /\ servers' = servers + 1]_vars
  /\ [](eagerPc = "caught" /\ timer # "fired" => timer = "cleared")

C10_Witness ==
  /\ eagerPc = "caught"
  /\ timer = "cleared"
  /\ modules = ClearedModules
  /\ safeModeFallback
  /\ servers = 1

\* C11: once the timer has fired the mode is Safe, and a loadModule(b) call
\* for a slot that is still empty issues exactly one import() of b and none
\* of any other module.
C11_TimerThenLazyLoad ==
  /\ [](timer = "fired" => (safeModeFallback /\ ~useEagerLoading))
  /\ [][\A m \in Modules :
          (timer = "fired" /\ modules[m] = NULL /\ LoadModule(m))
            => /\ InFlight(m)' = InFlight(m) + 1
               /\ \A n \in Modules \ {m} : InFlight(n)' = InFlight(n)]_vars

C11_Witness ==
  /\ timer = "fired"
  /\ safeModeFallback
  /\ \E m \in Modules : modules[m] = NULL /\ lazyPending[m] = 1 /\ eagerPc # m

\* C12: a failed loadModule(b) is not cached: the failing step reports the
\* error and writes no slot (an empty slot stays empty); a later
\* loadModule(b) on the empty slot issues import() again, and an import that
\* resolves stores the module in the slot.
C12_FailureNotCached ==
  [][\A m \in Modules :
       /\ LoadModuleFail(m)
            => (lastReturn' = "error" /\ modules' = modules)
       /\ (modules[m] = NULL /\ LoadModule(m))
            => lazyPending'[m] = lazyPending[m] + 1
       /\ LoadModuleOk(m)
            => (modules'[m] = LOADED /\ lastReturn' = "loaded")]_vars

C12_Witness ==
  /\ lastReturn = "error"
  /\ ~exited
  /\ connected > 0
  /\ \A m \in Modules : modules[m] = NULL /\ InFlight(m) = 0

\* C13: while the eager load is running, the import of every module has
\* been started: none waits for another module's import to settle.
C13_AllStartedAtOnce ==
  eagerPc \in Modules
    => \A m \in Modules : IndexOf(m) <= IndexOf(eagerPc)

\* C14: the step in which an eager import fails does not end the process:
\* it switches to safe mode, runs initServer (a transport starts to
\* connect) and leaves the failed module's slot empty for a lazy load.
C14_EagerFailureNotFatal ==
  [][(eagerPc \in Modules /\ eagerPc' = "caught")
       => /\ ~exited'
          /\ safeModeFallback' /\ ~useEagerLoading'
          /\ servers' > servers
          /\ connecting' > connecting
          /\ modules'[eagerPc] = NULL]_vars

C14_Witness ==
  /\ eagerPc = "caught"
  /\ ~exited
  /\ connected > 0
  /\ lastReturn = "loaded"

\* C15: a failed import in loadModule is answered with isError = true for
\* that call only: the process does not exit, the transports stay connected
\* (later calls are served), and no slot and no other pending call changes.
C15_LazyFailureIsToolError ==
  [][\A m \in Modules :
       LoadModuleFail(m)
         => /\ IsError(lastReturn')
            /\ ~exited'
            /\ connected' = connected /\ connected' > 0
            /\ servers' = servers
            /\ modules' = modules
            /\ \A n \in Modules \ {m} : lazyPending'[n] = lazyPending[n]]_vars

C15_Witness ==
  /\ IsError(lastReturn)
  /\ ~exited
  /\ connected > 0
  /\ \E m \in Modules : lazyPending[m] > 0

(***************************************************************************)
(* Properties of the record parser (specification DecSpec)                 *)
(***************************************************************************)

Units(t) == {t[i] : i \in DOMAIN t}

IdentKeys == {<<"subject">>, <<"sender">>}

\* The records a rendered text was written from: the fields from one
\* opening field up to the next.
RECURSIVE GroupFrom(_, _)
GroupFrom(fs, i) ==
  IF i > Len(fs) THEN <<>>
  ELSE LET later == {j \in (i + 1)..Len(fs) : fs[j].opens}
           nxt == IF later = {} THEN Len(fs) + 1
                  ELSE CHOOSE j \in later : \A k \in later : j <= k
       IN <<SubSeq(fs, i, nxt - 1)>> \o GroupFrom(fs, nxt)

\* The fields of a source record as a map: the last field of a name counts.
ExpectedMap(r) ==
  [k \in {r[i].key : i \in DOMAIN r} |->
     LET last == CHOOSE i \in DOMAIN r :
                   r[i].key = k /\ \A j \in DOMAIN r : r[j].key = k => j <= i
     IN r[last].value]

ExpectedRecords(src) ==
  LET rs == GroupFrom(src.fields, 1)
  IN [i \in 1..Len(rs) |-> ExpectedMap(rs[i])]

\* C16: malformed fragments are skipped one by one: the records decoded
\* from a catenation of well-formed records and malformed fragments are
\* those decoded from the well-formed records alone.
C16_MalformedSkipped ==
  (origin = "pieces" /\ decPc = "done")
    => LET WellFormed(piece) == piece \in WellFormedPieces
       IN records = DecodeRecords(Concat(SelectSeq(source, WellFormed)))

\* C17 (as claimed): a text rendered from flat records, each with a subject
\* or a sender field, decodes to one record per source record, in order,
\* with the trimmed keys and values.
C17_RoundTrip ==
  (origin = "rendered" /\ decPc = "done"
     /\ \A i \in 1..Len(ExpectedRecords(source)) :
          \E k \in IdentKeys : k \in DOMAIN ExpectedRecords(source)[i])
    => records = ExpectedRecords(source)

\* C17 (amended): the same for records each having a subject or a sender
\* whose value is not empty.
C17_RoundTripNonEmpty ==
  (origin = "rendered" /\ decPc = "done"
     /\ \A i \in 1..Len(ExpectedRecords(source)) :
          \E k \in IdentKeys :
            /\ k \in DOMAIN ExpectedRecords(source)[i]
            /\ ExpectedRecords(source)[i][k] # <<>>)
    => /\ records = ExpectedRecords(source)
       /\ Len(emailData) = Len(records)

C17_Witness ==
  /\ origin = "rendered"
  /\ decPc = "done"
  /\ source.pad
  /\ Len(records) = 2
  /\ records[1] # records[2]
  /\ \E k \in DOMAIN records[2] : ":" \in Units(records[2][k])

\* C18 (as claimed): the filter step pushes the candidate exactly when its
\* email object has a subject or a sender property, and never touches the
\* entries pushed before.
C18_FilterOnPresence ==
  [][(decPc = "filter" /\ decPc' # "filter")
       => /\ (Len(emailData') = Len(emailData) + 1)
               <=> (\E k \in IdentKeys : k \in DOMAIN email)
          /\ SubSeq(emailData', 1, Len(emailData)) = emailData]_vars

\* C18 (amended): the filter step pushes the candidate exactly when its
\* email object has a subject or a sender property that is not the empty
\* string, and never touches the entries pushed before.
C18_FilterOnNonEmpty ==
  [][(decPc = "filter" /\ decPc' # "filter")
       => /\ (Len(emailData') = Len(emailData) + 1)
               <=> (\E k \in IdentKeys : k \in DOMAIN email /\ Len(email[k]) > 0)
          /\ Len(emailData') \in {Len(emailData), Len(emailData) + 1}
          /\ SubSeq(emailData', 1, Len(emailData)) = emailData]_vars

C18_Witness ==
  /\ decPc = "done"
  /\ Len(matches) = 3
  /\ Len(emailData) = 2
  /\ \A k \in IdentKeys : k \notin DOMAIN EmailOf(matches[2])

\* C19: the candidate is cut at every comma: there is one prop more than
\* there are commas, no prop holds a comma, the props joined by commas give
\* the candidate back, and a property of the email object only ever comes
\* from a prop that holds a colon.
C19_CommaSplitSyntactic ==
  decPc \in {"forEach", "filter"}
    => LET inner == SubSeq(matches[idx], 2, Len(matches[idx]) - 1)
           HasColon == {i \in 1..Len(props) : ":" \in Units(props[i])}
       IN /\ Len(props) = Cardinality({j \in 1..Len(inner) : inner[j] = ","}) + 1
          /\ \A i \in 1..Len(props) : "," \notin Units(props[i])
          /\ Join(props, ",") = inner
          /\ decPc = "filter"
               => /\ Cardinality(DOMAIN email) <= Cardinality(HasColon)
                  /\ (HasColon = {} => email = EmptyEmail)

C19_Witness ==
  /\ decPc = "filter"
  /\ Len(props) = 2
  /\ ":" \in Units(props[1])
  /\ props[2] = <<" ", "x">>
  /\ email = [k \in {<<"subject">>} |-> <<"x">>]

\* C20: a prop is cut at its first colon only: the key is the trimmed text
\* before it, the value the trimmed text after it, later colons included
\* (the last prop of a key counts); props without a colon add no property.
C20_FirstColonSplit ==
  decPc = "filter"
    => LET Colon(i) == IndexFrom(props[i], ":", 1)
           Key(i) == Trim(SubSeq(props[i], 1, Colon(i) - 1))
           Value(i) == Trim(SubSeq(props[i], Colon(i) + 1, Len(props[i])))
           WithColon == {i \in 1..Len(props) : Colon(i) > 0}
       IN /\ DOMAIN email = {Key(i) : i \in WithColon}
          /\ \A i \in WithColon :
               (\A j \in WithColon : Key(j) = Key(i) => j <= i)
                 => email[Key(i)] = Value(i)

C20_Witness ==
  /\ decPc = "filter"
  /\ Len(props) = 2
  /\ IndexFrom(props[1], ":", 1) = 0
  /\ \E k \in DOMAIN email : ":" \in Units(email[k])

\* The script resolved with a text that does not start with "Error:".
ScriptSucceeded == origin = "mail" /\ ~StartsWithError(asResult)

\* C21: decoding is total: once the script result is there the parser
\* always runs to the end and the handler answers; it never lands in the
\* catch block (the general method is not called), the answer is not an
\* error and counts the decoded emails; a text without any candidate,
\* the empty text included, decodes to the empty sequence and is answered
\* with "No unread emails found".
C21_DecodeTotal ==
  /\ [](decPc = "responded" /\ ScriptSucceeded
         => /\ fallback = "idle"
            /\ response = Response(emailData)
            /\ response.isError = FALSE
            /\ (RegexMatchAll(asResult) = <<>>
                  => emailData = <<>> /\ response.kind = "none"))
  /\ ((decPc = "match") ~> (decPc = "responded"))

C21_Witness ==
  /\ decPc = "responded"
  /\ origin = "mail"
  /\ asResult = <<"x", "{", "x">>
  /\ response.kind = "none"

\* Both requests were answered from the script's text.
BothDecoded ==
  /\ run = 2
  /\ decPc = "responded"
  /\ account
  /\ first.fallback = "idle"
  /\ fallback = "idle"

\* An emitted email without its dateSent.
Undated(entry) == [entry EXCEPT !.dateSent = <<>>]

C28_FallbackOnScriptFailure ==
  (decPc = "responded" /\ account)
    => /\ (origin = "threw" \/ (origin = "mail" /\ StartsWithError(asResult)))
            => /\ fallback \in {"returned", "threw"}
               /\ response.isError = (fallback = "threw")
               /\ (fallback = "returned" => response = Response(emails))
       /\ ScriptSucceeded
            => /\ fallback = "idle"
               /\ response.isError = FALSE

C28_Witness ==
  /\ decPc = "responded"
  /\ account
  /\ origin = "mail"
  /\ StartsWithError(asResult)
  /\ fallback = "returned"
  /\ response.kind = "found"

\* createNote has returned and the named folder did not exist at the call.
ReturnedForMissing(name) ==
  /\ notePc = "returned"
  /\ folderName = name
  /\ name \notin noteBefore.folders

\* C23: createNote with a folderName other than 'Claude' that names no
\* existing folder returns success = false with a message (it returns, it
\* does not throw) and leaves the folders and the notes as they were.
C23_MissingFolderFailsCleanly ==
  \A name \in FolderNames \ {"Claude"} :
    ReturnedForMissing(name)
      => /\ noteResult.success = FALSE
         /\ Len(noteResult.message) >= 2
         /\ folders = noteBefore.folders
         /\ notes = noteBefore.notes

C23_Witness ==
  /\ ReturnedForMissing("Missing")
  /\ noteResult = [success |-> FALSE,
                   message |-> <<"Failed to create note: ", "Folder not found">>]
  /\ noteCalls = 2
  /\ Len(notes) = 1

\* createNote was called without a folderName and has returned.
ReturnedForDefault == notePc = "returned" /\ folderArg = "undefined"

\* No createNote call makes a folder with a name other than 'Claude'.
OnlyClaudeIsMade ==
  notePc # "idle" => folders \subseteq noteBefore.folders \cup {"Claude"}

\* C24 as stated: without a folderName the note goes to 'Claude' with
\* usedDefaultFolder = false if that folder exists; if not, the folder is
\* made first and the result has success = true and usedDefaultFolder =
\* true; no folder of another name is ever made.
C24_DefaultFolder ==
  /\ OnlyClaudeIsMade
  /\ ReturnedForDefault
       => /\ folderName = "Claude"
          /\ noteResult.success
          /\ notes = Append(noteBefore.notes, "Claude")
          /\ "Claude" \in folders
          /\ noteResult.usedDefaultFolder = ("Claude" \notin noteBefore.folders)

\* C24 amended: the same for the calls that return success = true and
\* whose folder 'Claude' existed or could be made; when making the folder
\* fails, utils/notes.ts puts the note in the default location and reports
\* folderName 'Default' with usedDefaultFolder = false.
C24_DefaultFolderOnSuccess ==
  /\ OnlyClaudeIsMade
  /\ ReturnedForDefault
       => /\ folderName = "Claude"
          /\ noteResult.success
               => IF "Claude" \in folders
                    THEN /\ notes = Append(noteBefore.notes, "Claude")
                         /\ noteResult.folderName = "Claude"
                         /\ noteResult.usedDefaultFolder
                              = ("Claude" \notin noteBefore.folders)
                    ELSE /\ noteVersion = "utils"
                         /\ notes = Append(noteBefore.notes, "Default")
                         /\ noteResult.folderName = "Default"
                         /\ noteResult.usedDefaultFolder = FALSE
          /\ ~noteResult.success => notes = noteBefore.notes

C24_Witness ==
  /\ ReturnedForDefault
  /\ "Claude" \notin noteBefore.folders
  /\ noteResult = [success |-> TRUE, folderName |-> "Claude",
                   usedDefaultFolder |-> TRUE]

\* C25: in the simplified program the handlers are registered and the
\* transport is connected only when all eight modules have been imported,
\* one after another in the order contacts, notes, message, mail,
\* reminders, webSearch, calendar, maps; when an import fails the process
\* exits with code 1 and no handler is registered.
C25_HandlersAfterAllImports ==
  /\ importLog = SubSeq(SimpleOrder, 1, Len(importLog))
  /\ \A m \in SimpleModules :
       slots[m] # NULL <=> \E i \in 1..Len(importLog) : importLog[i] = m
  /\ (handlers \/ simplePc \in {"connecting", "serving"})
       => /\ importLog = SimpleOrder
          /\ ~importFailed
  /\ importFailed => exitCode = 1 /\ simplePc = "exited" /\ ~handlers

C25_Witness ==
  /\ simplePc = "serving"
  /\ handlers
  /\ importLog = SimpleOrder

\* C26: every CallTool request is answered with content and isError, never
\* by an exception leaving the handler; whatever was raised while handling
\* it gives isError = true; an unknown tool name gives isError = true and
\* no module is asked for.
C26_EveryRequestAnswered ==
  reqPc = "responded"
    => /\ reqResponse.kind \in {"result", "error"}
       /\ reqResponse.isError \in BOOLEAN
       /\ reqCause # "none" => reqResponse = ErrorReply
       /\ reqTool \notin ToolNames
            => /\ reqResponse.isError
               /\ resolved = {}
               /\ slots = slotsBefore
               /\ backendCalls = 0

C26_Witness ==
  /\ reqPc = "responded"
  /\ reqCause = "backend failure"
  /\ reqResponse.isError
  /\ reqTool = "maps"

\* C27: when the type guard of a tool rejects the arguments, no module has
\* been asked of loadModuleForTool, no module function has been called, the
\* slots are what they were, and the response has isError = true.
C27_GuardBeforeResolution ==
  (reqPc # "idle" /\ reqTool \in ToolNames /\ reqArgs = "invalid")
    => /\ resolved = {}
       /\ backendCalls = 0
       /\ slots = slotsBefore
       /\ reqPc = "responded"
       /\ reqResponse = ErrorReply
       /\ reqCause = "invalid arguments"

C27_Witness ==
  /\ reqPc = "responded"
  /\ reqTool = "mail"
  /\ reqArgs = "invalid"
  /\ reqResponse.isError

\* The number num of a contact, stripped of every character other than
\* digits and '+', is the searched number s, or s with '+' or '+1' put in
\* front, or becomes s when '+1' is put in front of it.
ClaimedMatch(num, s) ==
  LET n == SelectSeq(num, LAMBDA c : c \in Kept)
      Drop(t, k) == SubSeq(t, k + 1, Len(t))
  IN \/ n = s
     \/ Len(n) = Len(s) + 1 /\ n[1] = "+" /\ Drop(n, 1) = s
     \/ Len(n) = Len(s) + 2 /\ n[1] = "+" /\ n[2] = "1" /\ Drop(n, 2) = s
     \/ Len(s) = Len(n) + 2 /\ s[1] = "+" /\ s[2] = "1" /\ Drop(s, 2) = n

HasClaimedMatch(entry, s) ==
  \E j \in 1..Len(entry.numbers) : ClaimedMatch(entry.numbers[j], s)

\* C29: findContactByPhone always returns: null on a failure (denied
\* access to Contacts included); otherwise the name of the first contact
\* one of whose numbers matches the searched number (itself stripped of
\* every character other than digits and '+') as ClaimedMatch says, and
\* null when no contact has such a number.
C29_FindContactByPhone ==
  contactPc \in {"returned", "displayed"}
    => LET s == SelectSeq(phoneNumber, LAMBDA c : c \in Kept)
           hits == {i \in 1..Len(allContacts) : HasClaimedMatch(allContacts[i], s)}
       IN IF contactFailed # "none" \/ hits = {}
            THEN contactResult = NULL
            ELSE \E i \in hits :
                   /\ \A k \in hits : i <= k
                   /\ contactResult = allContacts[i].name

C29_Witness ==
  /\ contactPc = "returned"
  /\ contactFailed = "none"
  /\ phoneNumber = <<"1", "-", "1">>
  /\ Len(allContacts) = 2
  /\ allContacts[1].numbers = <<<<"-">>, <<"1">>>>
  /\ allContacts[2].numbers = <<<<"+", "-", "1", "1">>>>
  /\ contactResult = "Bob"

\* The blocks of the search page that have all four parts.
CompleteBlocks == {i \in 1..Len(html) : html[i]}

\* C30: webSearch always returns, with at most 3 results; when the search
\* fails or finds nothing it returns results = [] with an error; otherwise
\* it returns the first (at most 3) results of the page in order, each
\* one with content = null and an error text if its own fetch failed and
\* with its content and no error if its own fetch succeeded, whatever
\* happened to the fetches of the others.
C30_WebSearchIsolatesFailures ==
  webPc = "returned"
    => /\ Len(webResult.results) <= 3
       /\ IF searchFailed \/ CompleteBlocks = {}
            THEN webResult.results = <<>> /\ webResult.error # "none"
            ELSE /\ webResult.error = "none"
                 /\ Len(webResult.results) = IF Cardinality(CompleteBlocks) < 3
                                               THEN Cardinality(CompleteBlocks)
                                               ELSE 3
                 /\ \A i \in 1..Len(webResult.results) :
                      LET r == webResult.results[i]
                      IN /\ r.url \in CompleteBlocks
                         /\ Cardinality({b \in CompleteBlocks : b < r.url}) = i - 1
                         /\ fetches[i] = "failed"
                              => r.content = NULL /\ r.error # "none"
                         /\ fetches[i] = "ok"
                              => r.content # NULL /\ r.error = "none"
                         /\ fetches[i] # "pending"

C30_Witness ==
  /\ webPc = "returned"
  /\ Len(html) = 4
  /\ Len(webResult.results) = 3
  /\ webResult.results[1].content # NULL
  /\ webResult.results[2].content = NULL
  /\ webResult.results[2].error = "fetch error"
  /\ webResult.results[3].content # NULL

====
